---------------------------- MODULE Spec2Model ----------------------------
(***************************************************************************)
(* A model of container/k8s/deploy.py: the translation of a compose-style  *)
(* service/volume configuration into Kubernetes Service, Deployment and    *)
(* PersistentVolumeClaim manifests and the Ansible tasks that apply them.  *)
(*                                                                         *)
(* Python strings that the code parses (port declarations, links, volume   *)
(* declarations, service names) are sequences of tokens: "8080:80/tcp" is  *)
(* <<"8080", ":", "80", "/", "tcp">>.  str.split, the `in` test, int() and *)
(* str.upper() work on those sequences.  Strings the code never looks into *)
(* (kinds, project name, claim names) are plain strings.                   *)
(*                                                                         *)
(* A Python call either returns or raises: Ok(v) and Raise(e).             *)
(***************************************************************************)
EXTENDS Integers, Sequences, FiniteSets, TLC

VARIABLES
    _services,          \* Deployment._services: ordered map, <<[name, config], ...>>
    _project_name,      \* Deployment._project_name
    _volumes,           \* Deployment._volumes: ordered map, <<[name, config], ...>>
    ret                 \* what each property returned when last read

vars == <<_services, _project_name, _volumes, ret>>

-----------------------------------------------------------------------------
(* Bounds of the model.                                                    *)

MaxPorts == 2       \* longest `ports` list of a service
MaxCaps == 2        \* longest cap_add / cap_drop list
MaxVols == 2        \* longest `volumes` list of a service
MaxVolumes == 2     \* most entries of the top-level volumes map

-----------------------------------------------------------------------------
(* Python values and outcomes.                                             *)

None == [py |-> "None"]
NotRead == [st |-> "unread"]
Ok(v) == [st |-> "ok", val |-> v]
Raise(e) == [st |-> "raise", exc |-> e]
IsOk(r) == r.st = "ok"

\* A dict (CommentedMap) is a function on its keys; {} is the empty function.
EmptyMap == <<>>
Has(map, key) == key \in DOMAIN map

\* dict[key] = val
Set(map, key, val) == (key :> val) @@ map

\* An ordered dict whose iteration order the code depends on (a service's
\* directives) is the sequence of its items, <<[k |-> key, v |-> value], ...>>.
Keys(items) == {items[i].k : i \in DOMAIN items}
Item(items, key) == items[CHOOSE i \in DOMAIN items : items[i].k = key].v

\* service.get(key, []) for the list-valued directives
GetList(service, key) == IF key \in Keys(service) THEN Item(service, key) ELSE <<>>

\* service.get('k8s', {})
GetK8s(service) == IF "k8s" \in Keys(service) THEN Item(service, "k8s") ELSE EmptyMap

-----------------------------------------------------------------------------
(* Strings as token sequences.                                             *)

Range(s) == {s[i] : i \in DOMAIN s}

\* `sep in s`
Contains(s, sep) == sep \in Range(s)

\* s.split(sep): the parts between the occurrences of sep
RECURSIVE Split(_, _)
Split(s, sep) ==
    IF ~Contains(s, sep) THEN <<s>>
    ELSE LET i == CHOOSE k \in DOMAIN s :
                      s[k] = sep /\ \A j \in 1..(k - 1) : s[j] # sep
         IN  <<SubSeq(s, 1, i - 1)>> \o Split(SubSeq(s, i + 1, Len(s)), sep)

\* int(): the numbers the declarations of the model write
Digits == [t \in {"53", "80", "443", "8080"} |->
              CASE t = "53" -> 53 [] t = "80" -> 80 [] t = "443" -> 443
                [] t = "8080" -> 8080]

IsNumber(s) == Len(s) = 1 /\ s[1] \in DOMAIN Digits
ToInt(s) == Digits[s[1]]

\* str.upper()
UpperTok(t) ==
    CASE t \in {"tcp", "Tcp", "TCP"} -> "TCP"
      [] t \in {"udp", "Udp", "UDP"} -> "UDP"
      [] OTHER -> t
Upper(s) == [i \in DOMAIN s |-> UpperTok(s[i])]

-----------------------------------------------------------------------------
(* _get_service_ports: the ports a Service publishes.                      *)
(* A declaration is [str |-> is it a Python string, s |-> its text].       *)

TCP == <<"TCP">>

\* `port, protocol = port.split('/')`: the tuple assignment takes two parts
TakeProtocol(parts) ==
    IF Len(parts) = 2 THEN Ok([port |-> parts[1], protocol |-> parts[2]])
    ELSE Raise("ValueError")

\* protocol = 'TCP'; if the declaration is a string with '/', split it
SplitProtocol(decl) ==
    IF decl.str /\ Contains(decl.s, "/") THEN TakeProtocol(Split(decl.s, "/"))
    ELSE Ok([port |-> decl.s, protocol |-> TCP])

\* `_, port = port.split(':')`
TakeContainerPort(protocol, parts) ==
    IF Len(parts) = 2 THEN Ok([port |-> parts[2], protocol |-> protocol])
    ELSE Raise("ValueError")

\* if the port is a string with ':', keep what follows the ':'
SplitHostPort(decl, parsed) ==
    IF IsOk(parsed) /\ decl.str /\ Contains(parsed.val.port, ":")
    THEN TakeContainerPort(parsed.val.protocol, Split(parsed.val.port, ":"))
    ELSE parsed

_port_in_list(ports, port, protocol) ==
    \E i \in DOMAIN ports :
        ports[i].port = ToInt(port) /\ ports[i].protocol = protocol

_append_port(ports, port, protocol) ==
    IF ~IsNumber(port) THEN Raise("ValueError")
    ELSE IF _port_in_list(ports, port, protocol) THEN Ok(ports)
    ELSE Ok(Append(ports,
                   [port |-> ToInt(port),
                    targetPort |-> ToInt(port),
                    protocol |-> protocol,
                    name |-> <<"port-">> \o port \o <<"-">> \o Upper(protocol)]))

\* _append_port(port, protocol) with what the splits left, if they returned
AppendParsed(ports, parsed) ==
    IF ~IsOk(parsed) THEN parsed
    ELSE _append_port(ports, parsed.val.port, parsed.val.protocol)

\* one turn of `for port in service.get('ports', [])`
ServicePortsStep(ports, decl) ==
    AppendParsed(ports, SplitHostPort(decl, SplitProtocol(decl)))

\* one turn of `for port in service.get('expose', [])`
ServiceExposeStep(ports, decl) == AppendParsed(ports, SplitProtocol(decl))

RECURSIVE ServicePortsLoop(_, _, _)
ServicePortsLoop(acc, decls, exposed) ==
    IF ~IsOk(acc) \/ decls = <<>> THEN acc
    ELSE ServicePortsLoop(
             IF exposed THEN ServiceExposeStep(acc.val, Head(decls))
                        ELSE ServicePortsStep(acc.val, Head(decls)),
             Tail(decls), exposed)

_get_service_ports(service) ==
    ServicePortsLoop(
        ServicePortsLoop(Ok(<<>>), GetList(service, "ports"), FALSE),
        GetList(service, "expose"), TRUE)

-----------------------------------------------------------------------------
(* Deployment.services: one Service per present service that publishes     *)
(* ports, and one more per aliased link.                                   *)

DEFAULT_API_VERSION == "v1"

\* state = 'present'; if service.get('k8s', {}).get('state'): state = that
ServiceState(service) ==
    LET k8s == GetK8s(service)
    IN  IF Has(k8s, "state") /\ k8s.state # "" THEN k8s.state ELSE "present"

Labels(name) == [app |-> _project_name, service |-> name]

\* `for port in template['spec']['ports']: if port['port'] != port['targetPort']`
NeedsLoadBalancer(ports) ==
    \E i \in DOMAIN ports : ports[i].port # ports[i].targetPort

ServiceTemplate(name, ports) ==
    LET spec == [selector |-> Labels(name), ports |-> ports]
    IN  [apiVersion |-> DEFAULT_API_VERSION,
         kind |-> "Service",
         metadata |-> [name |-> name, labels |-> Labels(name)],
         spec |-> IF NeedsLoadBalancer(ports)
                  THEN Set(spec, "type", "LoadBalancer")
                  ELSE spec]

\* `if ports:` the template, else the empty map
ServiceOfPorts(name, ports) ==
    IF ~IsOk(ports) THEN ports
    ELSE IF ports.val # <<>> THEN Ok(ServiceTemplate(name, ports.val))
    ELSE Ok(EmptyMap)

\* returns the template, or the empty map when the service gets no Service
_create_service(name, service) ==
    IF ServiceState(service) = "present"
    THEN ServiceOfPorts(name, _get_service_ports(service))
    ELSE Ok(EmptyMap)

\* `if template: templates.append(template)`
AppendTemplate(templates, made) ==
    IF ~IsOk(made) THEN made
    ELSE IF made.val # EmptyMap THEN Ok(Append(templates, made.val))
    ELSE Ok(templates)

\* alias_config = self._services.get(service_name); <<>> stands for both of
\* the values `if alias_config:` rejects, None and the empty mapping
AliasConfig(service_name) ==
    IF \E i \in DOMAIN _services : _services[i].name = service_name
    THEN (_services[CHOOSE i \in DOMAIN _services :
                        _services[i].name = service_name]).config
    ELSE <<>>

\* `if alias_config:` a Service named alias from the configuration found
AliasService(templates, alias, alias_config) ==
    IF alias_config # <<>>
    THEN AppendTemplate(templates, _create_service(alias, alias_config))
    ELSE Ok(templates)

\* `service_name, alias = link.split(':')`
LinkParts(templates, parts) ==
    IF Len(parts) # 2 THEN Raise("ValueError")
    ELSE AliasService(templates, parts[2], AliasConfig(parts[1]))

\* LinkStep with the alias built from the linking service's own configuration
LinkStepOwnConfig(templates, service, link) ==
    IF Contains(link, ":")
    THEN AppendTemplate(templates,
                        _create_service(Split(link, ":")[2], service))
    ELSE Ok(templates)

\* one turn of `for link in service['links']`, in the turn of `service`
LinkStep(templates, service, link) ==
    IF Contains(link, ":") THEN LinkParts(templates, Split(link, ":"))
    ELSE Ok(templates)

RECURSIVE LinksLoop(_, _, _)
LinksLoop(acc, service, links) ==
    IF ~IsOk(acc) \/ links = <<>> THEN acc
    ELSE LinksLoop(LinkStep(acc.val, service, Head(links)), service, Tail(links))

\* one turn of `for name, service in self._services.items()`
ServicesStep(templates, name, service) ==
    LinksLoop(AppendTemplate(templates, _create_service(name, service)),
              service, GetList(service, "links"))

RECURSIVE ServicesLoop(_, _)
ServicesLoop(acc, items) ==
    IF ~IsOk(acc) \/ items = <<>> THEN acc
    ELSE ServicesLoop(ServicesStep(acc.val, Head(items).name, Head(items).config),
                      Tail(items))

services == ServicesLoop(Ok(<<>>), _services)

\* one task per template of Deployment.services
ServiceTask(template) ==
    [name |-> "Create service",
     k8s_v1_service |-> [state |-> "present", service_definition |-> template]]

ServiceTasks(templates) ==
    IF ~IsOk(templates) THEN templates
    ELSE Ok([i \in DOMAIN templates.val |-> ServiceTask(templates.val[i])])

service_tasks == ServiceTasks(services)

-----------------------------------------------------------------------------
(* _add_container_ports: the ports of a container.                         *)

_port_exists(existing_ports, port, protocol) ==
    \E i \in DOMAIN existing_ports :
        /\ existing_ports[i].containerPort = ToInt(port)
        /\ existing_ports[i].protocol = protocol

\* `if not _port_exists(port, protocol): existing_ports.append(...)`
AppendContainerPort(existing_ports, parsed) ==
    IF ~IsOk(parsed) THEN parsed
    ELSE IF ~IsNumber(parsed.val.port) THEN Raise("ValueError")
    ELSE IF _port_exists(existing_ports, parsed.val.port, parsed.val.protocol)
    THEN Ok(existing_ports)
    ELSE Ok(Append(existing_ports,
                   [containerPort |-> ToInt(parsed.val.port),
                    protocol |-> Upper(parsed.val.protocol)]))

\* one turn of `for port in ports`
ContainerPortsStep(existing_ports, decl) ==
    AppendContainerPort(existing_ports, SplitHostPort(decl, SplitProtocol(decl)))

RECURSIVE _add_container_ports(_, _)
_add_container_ports(ports, existing_ports) ==
    IF ~IsOk(existing_ports) \/ ports = <<>> THEN existing_ports
    ELSE _add_container_ports(Tail(ports),
                              ContainerPortsStep(existing_ports.val, Head(ports)))

-----------------------------------------------------------------------------
(* _kube_volumes: the volumes and volumeMounts of a list of Docker volume  *)
(* declarations.  <<>> stands for None as well as for the empty string:    *)
(* the code tests both with `if destination:` and `if source:`.            *)

DOCKER_VOL_PERMISSIONS == {<<"rw">>, <<"ro">>, <<"z">>, <<"Z">>}

\* source, destination, permissions of one declaration, from vol.split(':')
VolumePieces(vol, pieces) ==
    IF ~Contains(vol, ":")
    THEN [source |-> <<>>, destination |-> vol, permissions |-> <<>>]
    ELSE IF Len(pieces) = 3
    THEN [source |-> pieces[1], destination |-> pieces[2],
          permissions |-> pieces[3]]
    ELSE IF Len(pieces) = 2 /\ pieces[2] \in DOCKER_VOL_PERMISSIONS
    THEN [source |-> <<>>, destination |-> pieces[1], permissions |-> pieces[2]]
    ELSE IF Len(pieces) = 2
    THEN [source |-> pieces[1], destination |-> pieces[2], permissions |-> <<>>]
    ELSE [source |-> <<>>, destination |-> <<>>, permissions |-> <<>>]

VolumeParts(vol) == VolumePieces(vol, Split(vol, ":"))

\* re.sub(r'-', '', name, 1): without its first '-'
RECURSIVE DropFirstDash(_)
DropFirstDash(name) ==
    IF name = <<>> THEN <<>>
    ELSE IF Head(name) = "-" THEN Tail(name)
    ELSE <<Head(name)>> \o DropFirstDash(Tail(name))

\* re.sub(r'\/', '-', destination), then without its first '-'
Slug(destination) ==
    DropFirstDash([i \in DOMAIN destination |->
                      IF destination[i] = "/" THEN "-" ELSE destination[i]])

\* `if destination: name = slug`; `name` is a local the turns of the loop
\* share: a turn without a destination reads the name an earlier turn bound
VolumeName(acc, parts) ==
    IF parts.destination # <<>>
    THEN [name |-> Slug(parts.destination), bound |-> TRUE]
    ELSE [name |-> acc.name, bound |-> acc.bound]

\* volumes.append(...) and volume_mounts.append(...) of a volume that is
\* not a named one
AddVolume(acc, parts, name, volume) ==
    [volumes |-> Append(acc.volumes, volume),
     volume_mounts |-> Append(acc.volume_mounts,
                              [mountPath |-> parts.destination,
                               name |-> name,
                               readOnly |-> (parts.permissions = <<"ro">>)]),
     name |-> name, bound |-> TRUE]

\* the `if source:` statement and the mount, with `name` as bound so far
PlaceVolume(acc, parts, named) ==
    IF parts.source # <<>> /\ parts.source[1] = "$"
    THEN Ok([acc EXCEPT !.name = named.name, !.bound = named.bound])
    ELSE IF parts.source # <<>> /\ parts.source[1] \in {"~", ".", "/"}
    THEN IF ~named.bound THEN Raise("UnboundLocalError")
         ELSE Ok(AddVolume(acc, parts, named.name,
                           [name |-> named.name,
                            hostPath |-> [path |-> parts.source]]))
    ELSE IF parts.source # <<>>
    THEN Ok([acc EXCEPT !.name = parts.source, !.bound = TRUE])
    ELSE IF ~named.bound THEN Raise("UnboundLocalError")
    ELSE Ok(AddVolume(acc, parts, named.name,
                      [name |-> named.name, emptyDir |-> [medium |-> ""]]))

ClassifyVolume(acc, parts) == PlaceVolume(acc, parts, VolumeName(acc, parts))

\* one turn of `for vol in docker_volumes`
VolumeStep(acc, vol) == ClassifyVolume(acc, VolumeParts(vol))

RECURSIVE VolumesLoop(_, _)
VolumesLoop(acc, vols) ==
    IF ~IsOk(acc) \/ vols = <<>> THEN acc
    ELSE VolumesLoop(VolumeStep(acc.val, Head(vols)), Tail(vols))

\* return volumes, volume_mounts
VolumesResult(done) ==
    IF ~IsOk(done) THEN done
    ELSE Ok([volumes |-> done.val.volumes,
             volume_mounts |-> done.val.volume_mounts])

_kube_volumes(self, docker_volumes) ==
    VolumesResult(VolumesLoop(Ok([volumes |-> <<>>, volume_mounts |-> <<>>,
                                  name |-> <<>>, bound |-> FALSE]),
                              docker_volumes))

\* A call of _kube_volumes with the positional arguments `args`: Python
\* raises TypeError unless there is one argument per parameter.
KubeVolumesParameters == <<"self", "docker_volumes">>

CallKubeVolumes(args) ==
    IF Len(args) # Len(KubeVolumesParameters) THEN Raise("TypeError")
    ELSE _kube_volumes(args[1], args[2])

-----------------------------------------------------------------------------
(* Deployment.deployments: one Deployment per present service.             *)
(* The configurations of the model carry the directives ports, expose,     *)
(* links, cap_add, cap_drop, volumes and k8s; the branches for command,    *)
(* entrypoint and environment (shlex.split, _expand_env_vars) are not      *)
(* modelled and no configuration carries those directives.                 *)

\* 'ipv6_address' 'labels' is one string literal: the list misses a comma
IGNORE_DIRECTIVES ==
    {"build", "expose", "labels", "links", "cgroup_parent", "dev_options",
     "devices", "depends_on", "dns", "dns_search", "env_file", "user",
     "extends", "extrenal_links", "extra_hosts", "ipv4_address",
     "ipv6_addresslabels", "logging", "log_driver", "lop_opt", "net",
     "network_mode", "networks", "restart", "pid", "security_opt",
     "stop_signal", "ulimits", "cpu_shares", "cpu_quota", "cpuset",
     "domainname", "hostname", "ipc", "mac_address", "mem_limit",
     "memswap_limit", "shm_size", "tmpfs", "options", "volume_driver",
     "volumes_from"}

DOCKER_TO_KUBE_CAPABILITY_MAPPING ==
    [SETPCAP |-> "CAP_SETPCAP",
     SYS_MODULE |-> "CAP_SYS_MODULE",
     SYS_RAWIO |-> "CAP_SYS_RAWIO",
     SYS_PACCT |-> "CAP_SYS_PACCT",
     SYS_ADMIN |-> "CAP_SYS_ADMIN",
     SYS_NICE |-> "CAP_SYS_NICE",
     SYS_RESOURCE |-> "CAP_SYS_RESOURCE",
     SYS_TIME |-> "CAP_SYS_TIME",
     SYS_TTY_CONFIG |-> "CAP_SYS_TTY_CONFIG",
     MKNOD |-> "CAP_MKNOD",
     AUDIT_WRITE |-> "CAP_AUDIT_WRITE",
     AUDIT_CONTROL |-> "CAP_AUDIT_CONTROL",
     MAC_OVERRIDE |-> "CAP_MAC_OVERRIDE",
     MAC_ADMIN |-> "CAP_MAC_ADMIN",
     NET_ADMIN |-> "CAP_NET_ADMIN",
     SYSLOG |-> "CAP_SYSLOG",
     CHOWN |-> "CAP_CHOWN",
     NET_RAW |-> "CAP_NET_RAW",
     DAC_OVERRIDE |-> "CAP_DAC_OVERRIDE",
     FOWNER |-> "CAP_FOWNER",
     DAC_READ_SEARCH |-> "CAP_DAC_READ_SEARCH",
     FSETID |-> "CAP_FSETID",
     KILL |-> "CAP_KILL",
     SETGID |-> "CAP_SETGID",
     SETUID |-> "CAP_SETUID",
     LINUX_IMMUTABLE |-> "CAP_LINUX_IMMUTABLE",
     NET_BIND_SERVICE |-> "CAP_NET_BIND_SERVICE",
     NET_BROADCAST |-> "CAP_NET_BROADCAST",
     IPC_LOCK |-> "CAP_IPC_LOCK",
     IPC_OWNER |-> "CAP_IPC_OWNER",
     SYS_CHROOT |-> "CAP_SYS_CHROOT",
     SYS_PTRACE |-> "CAP_SYS_PTRACE",
     SYS_BOOT |-> "CAP_SYS_BOOT",
     LEASE |-> "CAP_LEASE",
     SETFCAP |-> "CAP_SETFCAP",
     WAKE_ALARM |-> "CAP_WAKE_ALARM",
     BLOCK_SUSPEND |-> "CAP_BLOCK_SUSPEND"]

\* `for cap in value`: the mapped tokens, or KeyError at a name not in the table
RECURSIVE MapCapabilities(_, _)
MapCapabilities(acc, value) ==
    IF ~IsOk(acc) \/ value = <<>> THEN acc
    ELSE MapCapabilities(
             IF Has(DOCKER_TO_KUBE_CAPABILITY_MAPPING, Head(value))
             THEN Ok(Append(acc.val, DOCKER_TO_KUBE_CAPABILITY_MAPPING[Head(value)]))
             ELSE Raise("KeyError"),
             Tail(value))

\* securityContext['Capabilities'], created with empty lists on first use
Capabilities(container) ==
    IF Has(container.securityContext, "Capabilities")
    THEN container.securityContext.Capabilities
    ELSE [add |-> <<>>, drop |-> <<>>]

SetCapabilities(container, capabilities) ==
    Set(container, "securityContext",
        Set(container.securityContext, "Capabilities", capabilities))

\* the container with its add-list or drop-list (`list`) extended
WithCapabilities(container, list, mapped) ==
    IF ~IsOk(mapped) THEN mapped
    ELSE Ok(SetCapabilities(container,
                            Set(Capabilities(container), list, mapped.val)))

\* elif key == 'cap_add'
CapAdd(container, value) ==
    WithCapabilities(container, "add",
                     MapCapabilities(Ok(Capabilities(container).add), value))

\* CapDrop with the tokens appended to the add-list
CapDropIntoAdd(container, value) ==
    WithCapabilities(container, "add",
                     MapCapabilities(Ok(Capabilities(container).add), value))

\* elif key == 'cap_drop'
CapDrop(container, value) ==
    WithCapabilities(container, "drop",
                     MapCapabilities(Ok(Capabilities(container).drop), value))

\* `if not container.get('ports'): container['ports'] = []`
ExistingPorts(container) ==
    IF Has(container, "ports") THEN container.ports ELSE <<>>

WithPorts(container, ports) ==
    IF ~IsOk(ports) THEN ports ELSE Ok(Set(container, "ports", ports.val))

\* elif key in ('ports', 'expose')
ContainerPorts(container, value) ==
    WithPorts(container, _add_container_ports(value, Ok(ExistingPorts(container))))

SetSecurityContext(container, key, value) ==
    Set(container, "securityContext", Set(container.securityContext, key, value))

\* `if vol_mounts: container['volumeMounts'] = vol_mounts`,
\* `if vols: volumes += vols`
WithVolumes(acc, made) ==
    IF ~IsOk(made) THEN made
    ELSE Ok([container |-> IF made.val.volume_mounts # <<>>
                           THEN Set(acc.container, "volumeMounts",
                                    made.val.volume_mounts)
                           ELSE acc.container,
             volumes |-> acc.volumes \o made.val.volumes])

\* the container a branch of the loop made, with the volumes so far
WithContainer(acc, container) ==
    IF ~IsOk(container) THEN container
    ELSE Ok([acc EXCEPT !.container = container.val])

\* the branches of the loop that write the container alone
ContainerStep(container, key, value) ==
    CASE key = "cap_add" -> CapAdd(container, value)
      [] key = "cap_drop" -> CapDrop(container, value)
      [] key = "container_name" -> Ok(Set(container, "name", value))
      [] key = "ports" -> ContainerPorts(container, value)
      [] key = "privileged" ->
            Ok(SetSecurityContext(container, "privileged", value))
      [] key = "read_only" ->
            Ok(SetSecurityContext(container, "readOnlyRootFileSystem", value))
      [] key = "stdin_open" -> Ok(Set(container, "stdin", value))
      [] key = "working_dir" -> Ok(Set(container, "workingDir", value))
      [] OTHER -> Ok(Set(container, key, value))

\* one turn of `for key, value in service.items()`;
\* acc is [container, volumes]
DirectiveStep(acc, key, value) ==
    IF key \in IGNORE_DIRECTIVES THEN Ok(acc)
    ELSE IF key = "volumes" THEN WithVolumes(acc, CallKubeVolumes(<<value>>))
    ELSE WithContainer(acc, ContainerStep(acc.container, key, value))

RECURSIVE DirectivesLoop(_, _)
DirectivesLoop(acc, items) ==
    IF ~IsOk(acc) \/ items = <<>> THEN acc
    ELSE DirectivesLoop(DirectiveStep(acc.val, Head(items).k, Head(items).v),
                        Tail(items))

\* `if service.get('k8s'): for key, value in service['k8s'].items()`: the
\* keys that go to the container's securityContext
K8sSecurityContext(container, k8s) ==
    LET keys == DOMAIN k8s \cap {"seLinuxOptions", "runAsNonRoot", "runAsUser"}
    IN  Set(container, "securityContext",
            [key \in keys |-> k8s[key]] @@ container.securityContext)

\* and those that go to the pod
K8sPod(k8s) == [key \in DOMAIN k8s \cap {"replicas", "state"} |-> k8s[key]]

\* the `if service.get('k8s'):` statement, after the loop
TranslateOptions(done, k8s) ==
    IF ~IsOk(done) THEN done
    ELSE Ok([container |-> K8sSecurityContext(done.val.container, k8s),
             volumes |-> done.val.volumes,
             pod |-> K8sPod(k8s)])

\* returns [container, volumes, pod]
_service_to_container(name, service) ==
    TranslateOptions(
        DirectivesLoop(Ok([container |-> [name |-> name,
                                          securityContext |-> EmptyMap,
                                          state |-> "present"],
                           volumes |-> <<>>]),
                       service),
        GetK8s(service))

\* state = 'present'; if pod.get('state'): state = pod.pop('state')
PodState(pod) == IF Has(pod, "state") /\ pod.state # "" THEN pod.state ELSE "present"

\* the pod template: template['spec']['template']
PodTemplate(name, container, volumes) ==
    LET spec == [containers |-> <<container>>]
    IN  [metadata |-> [labels |-> Labels(name)],
         spec |-> IF volumes # <<>> THEN Set(spec, "volumes", volumes) ELSE spec,
         replicas |-> 1,
         strategy |-> [type |-> "RollingUpate"]]

\* template['spec']: the pod template, and the pod's replicas when given
DeploymentSpec(name, container, volumes, pod) ==
    LET spec == [template |-> PodTemplate(name, container, volumes)]
    IN  IF Has(pod, "replicas") THEN Set(spec, "replicas", pod.replicas) ELSE spec

DeploymentTemplate(name, container, volumes, pod) ==
    [apiVersion |-> "extensions/v1beta1",
     kind |-> "Deployment",
     metadata |-> [name |-> name, labels |-> Labels(name),
                   namespace |-> _project_name],
     spec |-> DeploymentSpec(name, container, volumes, pod)]

\* `if state == 'present': ... templates.append(template)`
AppendDeployment(templates, name, made) ==
    IF ~IsOk(made) THEN made
    ELSE IF PodState(made.val.pod) = "present"
    THEN Ok(Append(templates,
                   DeploymentTemplate(name, made.val.container,
                                      made.val.volumes, made.val.pod)))
    ELSE Ok(templates)

\* one turn of `for name, service_config in self._services.items()`
DeploymentsStep(templates, name, service_config) ==
    AppendDeployment(templates, name, _service_to_container(name, service_config))

RECURSIVE DeploymentsLoop(_, _)
DeploymentsLoop(acc, items) ==
    IF ~IsOk(acc) \/ items = <<>> THEN acc
    ELSE DeploymentsLoop(
             DeploymentsStep(acc.val, Head(items).name, Head(items).config),
             Tail(items))

deployments == DeploymentsLoop(Ok(<<>>), _services)

\* one task per template of Deployment.deployments
DeploymentTask(template) ==
    [name |-> "Create deployment",
     k8s_v1_deployment |-> [state |-> "present", service_definition |-> template]]

DeploymentTasks(templates) ==
    IF ~IsOk(templates) THEN templates
    ELSE Ok([i \in DOMAIN templates.val |-> DeploymentTask(templates.val[i])])

deployment_tasks == DeploymentTasks(deployments)

-----------------------------------------------------------------------------
(* Deployment.persistent_volume_claims: the claims of the volumes map.     *)

\* template['spec']['requested']['storage'] = storage: reads spec['requested']
SetRequestedStorage(template, storage) ==
    IF ~Has(template.spec, "requested") THEN Raise("KeyError")
    ELSE Ok(Set(template, "spec",
                Set(template.spec, "requested",
                    Set(template.spec.requested, "storage", storage))))

\* if claim.get('access_modes'): ...
PvcAccessModes(template, claim) ==
    IF ~IsOk(template) THEN template
    ELSE IF Has(claim, "access_modes") /\ claim.access_modes # <<>>
    THEN Ok(Set(template.val, "spec",
                Set(template.val.spec, "accessModes", claim.access_modes)))
    ELSE template

\* if claim.get('storage'): ...
PvcStorage(template, claim) ==
    IF ~IsOk(template) THEN template
    ELSE IF Has(claim, "storage") /\ claim.storage # ""
    THEN SetRequestedStorage(template.val, claim.storage)
    ELSE template

\* if claim.get('storage_class'): ...
PvcStorageClass(template, claim) ==
    IF ~IsOk(template) THEN template
    ELSE IF Has(claim, "storage_class") /\ claim.storage_class # ""
    THEN Ok(Set(template.val, "metadata",
                Set(template.val.metadata, "annotations",
                    [storageClass |-> claim.storage_class])))
    ELSE template

\* template['spec']['selector'][key] = claim[field], the selector created
\* on first use
SetSelector(template, key, claim, field) ==
    IF ~Has(claim, field) THEN Raise("KeyError")
    ELSE Ok(Set(template, "spec",
                Set(template.spec, "selector",
                    Set(IF Has(template.spec, "selector")
                        THEN template.spec.selector ELSE EmptyMap,
                        key, claim[field]))))

\* if claim['selector'].get('match_labels'): ...
PvcMatchLabels(template, claim) ==
    IF ~IsOk(template) THEN template
    ELSE IF Has(claim, "selector") /\ Has(claim.selector, "match_labels")
    THEN SetSelector(template.val, "matchLabels", claim, "match_labels")
    ELSE template

\* if claim['selector'].get('match_expressions'): ...
PvcMatchExpressions(template, claim) ==
    IF ~IsOk(template) THEN template
    ELSE IF Has(claim, "selector") /\ Has(claim.selector, "match_expressions")
    THEN SetSelector(template.val, "matchExpressions", claim, "match_expressions")
    ELSE template

\* the claim of one volume's k8s block, or None
_volume_to_pvc(claim) ==
    IF Has(claim, "type") /\ claim.type = "persistent"
    THEN IF ~Has(claim, "claim_name") THEN Raise("KeyError")
         ELSE PvcMatchExpressions(PvcMatchLabels(PvcStorageClass(PvcStorage(
                  PvcAccessModes(
                      SetRequestedStorage(
                          [apiVersion |-> DEFAULT_API_VERSION,
                           kind |-> "PersistentVolumeClaim",
                           metadata |-> [name |-> claim.claim_name],
                           spec |-> EmptyMap],
                          "1Gi"),
                      claim), claim), claim), claim), claim)
    ELSE Ok(None)

\* templates.append(volume)
AppendClaim(templates, volume) ==
    IF ~IsOk(volume) THEN volume ELSE Ok(Append(templates, volume.val))

\* one turn of `for volname, vol_config in self._volumes.items()`
ClaimsStep(templates, vol_config) ==
    IF Has(vol_config, "k8s")
    THEN AppendClaim(templates, _volume_to_pvc(vol_config.k8s))
    ELSE Ok(templates)

RECURSIVE ClaimsLoop(_, _)
ClaimsLoop(acc, items) ==
    IF ~IsOk(acc) \/ items = <<>> THEN acc
    ELSE ClaimsLoop(ClaimsStep(acc.val, Head(items).config), Tail(items))

persistent_volume_claims == ClaimsLoop(Ok(<<>>), _volumes)

-----------------------------------------------------------------------------
(* The configurations the loader hands to Deployment(...).                 *)

SeqsUpTo(S, n) == UNION {[1..k -> S] : k \in 0..n}

Str(tokens) == [str |-> TRUE, s |-> tokens]      \* a YAML string
Num(tokens) == [str |-> FALSE, s |-> tokens]     \* a YAML integer
Dir(key, value) == <<[k |-> key, v |-> value]>>  \* one directive of a service
Service(name, config) == [name |-> name, config |-> config]

PortDecls ==
    {Str(<<"80">>), Num(<<"80">>), Str(<<"80", "/", "tcp">>),
     Str(<<"80", "/", "TCP">>), Str(<<"8080", ":", "80">>),
     Str(<<"8080", ":", "80", "/", "tcp">>), Str(<<"53", "/", "udp">>),
     Str(<<"127.0.0.1", ":", "8080", ":", "80">>)}

ExposeDecls == {Str(<<"80">>), Str(<<"443", "/", "udp">>)}

\* one service, its ports and expose directives varied
PortConfigs ==
    {<<Service(<<"web">>, Dir("ports", ports) \o expose)>> :
        ports \in SeqsUpTo(PortDecls, MaxPorts),
        expose \in {<<>>} \cup {Dir("expose", <<e>>) : e \in ExposeDecls}}

\* Where the directives of a configuration differ in kind, the choices are
\* listed as a sequence and Init picks by position.

\* up to two services, in either order
ServiceOrders == {<<>>, <<<<"a">>>>, <<<<"b">>>>, <<<<"a">>, <<"b">>>>, <<<<"b">>, <<"a">>>>}

LinkPorts ==
    <<<<>>,
      Dir("ports", <<Str(<<"80">>)>>),
      Dir("ports", <<Str(<<"8080", ":", "80">>), Str(<<"53", "/", "udp">>)>>)>>

LinkK8s == <<<<>>, Dir("k8s", [state |-> "absent"])>>

LinkLists ==
    <<<<>>,
      Dir("links", <<<<"a", ":", "web">>>>),
      Dir("links", <<<<"b", ":", "db">>>>),
      Dir("links", <<<<"c", ":", "x">>>>),
      Dir("links", <<<<"a">>>>),
      Dir("links", <<<<"b", ":", "db">>, <<"a", ":", "web">>>>)>>

\* the services of a link configuration: ports, state and links varied
LinkConfig(order, p, k, l) ==
    [i \in DOMAIN order |->
        Service(order[i], LinkPorts[p[i]] \o LinkK8s[k[i]] \o LinkLists[l[i]])]

PodPorts == <<<<>>, Dir("ports", <<Str(<<"80">>)>>)>>

PodK8s ==
    <<<<>>,
      Dir("k8s", [state |-> "present"]),
      Dir("k8s", [state |-> "absent"]),
      Dir("k8s", [replicas |-> 0]),
      Dir("k8s", [replicas |-> 3]),
      Dir("k8s", [state |-> "present", replicas |-> 2]),
      Dir("k8s", [state |-> "absent", replicas |-> 2])>>

\* the services of a pod configuration: state and replicas varied
PodConfig(order, p, k) ==
    [i \in DOMAIN order |-> Service(order[i], PodPorts[p[i]] \o PodK8s[k[i]])]

CapNames == {"NET_ADMIN", "CHOWN", "NOT_A_CAPABILITY"}

\* one service, its cap_add and cap_drop directives varied, in either order
CapConfigs ==
    LET lists == SeqsUpTo(CapNames, MaxCaps)
        adds == {<<>>} \cup {Dir("cap_add", l) : l \in lists}
        drops == {<<>>} \cup {Dir("cap_drop", l) : l \in lists}
    IN  {<<Service(<<"web">>, a \o d)>> : a \in adds, d \in drops}
        \cup {<<Service(<<"web">>, d \o a)>> : a \in adds, d \in drops}

VolumeDecls ==
    {<<"/", "host", ":", "/", "data", ":", "ro">>,
     <<"/", "host", ":", "/", "data">>,
     <<".", "/", "conf", ":", "/", "etc", "/", "app", ":", "rw">>,
     <<"named", ":", "/", "data">>,
     <<"/", "scratch">>,
     <<"$", "HOME", ":", "/", "home">>}

\* one service, its volumes directive varied
VolumeConfigs ==
    {<<Service(<<"web">>, Dir("volumes", vols) \o k8s)>> :
        vols \in SeqsUpTo(VolumeDecls, MaxVols),
        k8s \in {<<>>, Dir("k8s", [state |-> "absent"])}}

\* a volume of the volumes map: without a k8s block, or with one
VolumeBlocks ==
    {[driver |-> "local"],
     [k8s |-> [type |-> "volatile"]],
     [k8s |-> [claim_name |-> "orphan"]],
     [k8s |-> [type |-> "persistent"]],
     [k8s |-> [type |-> "persistent", claim_name |-> "data"]],
     [k8s |-> [type |-> "persistent", claim_name |-> "data", storage |-> "5Gi"]]}

VolumeMaps ==
    {[i \in DOMAIN blocks |-> [name |-> <<"vol", ToString(i)>>, config |-> blocks[i]]] :
        blocks \in SeqsUpTo(VolumeBlocks, MaxVolumes)}

-----------------------------------------------------------------------------
(* The state machine: a Deployment is constructed, then its properties are *)
(* read, in any order and any number of times.                             *)

Init ==
    /\ _project_name = "proj"
    /\ \/ /\ \/ _services \in PortConfigs
             \/ _services \in CapConfigs
             \/ _services \in VolumeConfigs
          /\ _volumes = <<>>
       \/ /\ \E order \in ServiceOrders :
                \E p \in [DOMAIN order -> DOMAIN LinkPorts],
                   k \in [DOMAIN order -> DOMAIN LinkK8s],
                   l \in [DOMAIN order -> DOMAIN LinkLists] :
                    _services = LinkConfig(order, p, k, l)
          /\ _volumes = <<>>
       \/ /\ \E order \in ServiceOrders :
                \E p \in [DOMAIN order -> DOMAIN PodPorts],
                   k \in [DOMAIN order -> DOMAIN PodK8s] :
                    _services = PodConfig(order, p, k)
          /\ _volumes = <<>>
       \/ /\ _services = <<>>
          /\ _volumes \in VolumeMaps
    /\ ret = [services |-> NotRead, service_tasks |-> NotRead,
              deployments |-> NotRead, deployment_tasks |-> NotRead,
              persistent_volume_claims |-> NotRead]

Config == <<_services, _project_name, _volumes>>

\* the property that wraps the templates of a generator in tasks, and the
\* key of the task that names the applier
TaskProperty == [services |-> "service_tasks", deployments |-> "deployment_tasks"]
TaskApplier == [services |-> "k8s_v1_service", deployments |-> "k8s_v1_deployment"]

\* reading Deployment.services
GetServices ==
    /\ ret' = [ret EXCEPT !.services = services]
    /\ UNCHANGED Config

\* reading Deployment.service_tasks, which reads Deployment.services
GetServiceTasks ==
    /\ ret' = [ret EXCEPT !.service_tasks = service_tasks]
    /\ UNCHANGED Config

\* reading Deployment.deployments
GetDeployments ==
    /\ ret' = [ret EXCEPT !.deployments = deployments]
    /\ UNCHANGED Config

\* reading Deployment.deployment_tasks, which reads Deployment.deployments
GetDeploymentTasks ==
    /\ ret' = [ret EXCEPT !.deployment_tasks = deployment_tasks]
    /\ UNCHANGED Config

\* reading Deployment.persistent_volume_claims
GetPersistentVolumeClaims ==
    /\ ret' = [ret EXCEPT !.persistent_volume_claims = persistent_volume_claims]
    /\ UNCHANGED Config

Next ==
    \/ GetServices
    \/ GetServiceTasks
    \/ GetDeployments
    \/ GetDeploymentTasks
    \/ GetPersistentVolumeClaims

Spec == Init /\ [][Next]_vars

-----------------------------------------------------------------------------
(* What the properties below say of a configuration.                       *)

WasRead(result) == result.st # "unread"

\* a service is present unless its k8s block states another state
IsPresent(config) ==
    \/ "k8s" \notin Keys(config)
    \/ ~Has(Item(config, "k8s"), "state")
    \/ Item(config, "k8s").state = "present"

\* the declarations of a service under `key`
Declared(config, key) == IF key \in Keys(config) THEN Item(config, key) ELSE <<>>

\* the (port, protocol) pair a declaration "80", "80/tcp" or "8080:80/tcp"
\* stands for: the container port, and the protocol in upper case or TCP
DeclaredPair(decl) ==
    IF Contains(decl.s, "/")
    THEN <<ToInt(<<decl.s[Len(decl.s) - 2]>>), UpperTok(decl.s[Len(decl.s)])>>
    ELSE <<ToInt(<<decl.s[Len(decl.s)]>>), "TCP">>

DeclaredPairs(config) ==
    {DeclaredPair(d) : d \in Range(Declared(config, "ports"))
                              \cup Range(Declared(config, "expose"))}

\* the (port, protocol) pair of a port descriptor
DescriptorPair(p) == <<p.port, UpperTok(p.protocol[1])>>

\* every port declaration of the service is written as a string
StringForms(config) ==
    \A d \in Range(Declared(config, "ports")) \cup Range(Declared(config, "expose")) :
        d.str

-----------------------------------------------------------------------------
(* C1: the ports of a Service hold one descriptor per distinct (port,      *)
(* protocol) pair its service declares, whatever the string form of the    *)
(* declarations, with a missing protocol read as TCP and protocols         *)
(* compared in upper case.                                                 *)
C1_OneDescriptorPerPair ==
    (IsOk(ret.services) /\ \A s \in DOMAIN _services : StringForms(_services[s].config)) =>
        /\ \A i \in DOMAIN ret.services.val :
              LET ports == ret.services.val[i].spec.ports
              IN  \A a, b \in DOMAIN ports :
                      DescriptorPair(ports[a]) = DescriptorPair(ports[b]) => a = b
        /\ \A s \in DOMAIN _services :
              (IsPresent(_services[s].config)
                  /\ DeclaredPairs(_services[s].config) # {})
              => \E i \in DOMAIN ret.services.val :
                     /\ ret.services.val[i].metadata.name = _services[s].name
                     /\ {DescriptorPair(p) :
                             p \in Range(ret.services.val[i].spec.ports)}
                          = DeclaredPairs(_services[s].config)

\* a service whose only port declaration is the string `tokens`
OnlyPort(config, tokens) ==
    /\ Declared(config, "ports") = <<Str(tokens)>>
    /\ Declared(config, "expose") = <<>>

\* the Services of the result that carry `name`
ServicesNamed(name) ==
    {i \in DOMAIN ret.services.val : ret.services.val[i].metadata.name = name}

(* C2: a present service whose only port declaration is "8080:80" gets a   *)
(* Service with the single port port=8080, targetPort=80 and spec.type     *)
(* LoadBalancer; one whose only declaration is "80" gets port=80,          *)
(* targetPort=80 and no spec.type.                                         *)
C2_HostPortEscalates ==
    IsOk(ret.services) =>
        \A s \in DOMAIN _services :
            LET config == _services[s].config
                name == _services[s].name
            IN  /\ (IsPresent(config) /\ OnlyPort(config, <<"8080", ":", "80">>))
                    => \E i \in ServicesNamed(name) :
                           LET spec == ret.services.val[i].spec
                           IN  /\ Len(spec.ports) = 1
                               /\ spec.ports[1].port = 8080
                               /\ spec.ports[1].targetPort = 80
                               /\ Has(spec, "type")
                               /\ spec.type = "LoadBalancer"
                /\ (IsPresent(config) /\ OnlyPort(config, <<"80">>))
                    => \E i \in ServicesNamed(name) :
                           LET spec == ret.services.val[i].spec
                           IN  /\ Len(spec.ports) = 1
                               /\ spec.ports[1].port = 80
                               /\ spec.ports[1].targetPort = 80
                               /\ ~Has(spec, "type")

\* service b links to service a under `alias`: a is present and declares
\* ports, and b's links hold "a:alias"
Aliases(a, b, alias) ==
    /\ IsPresent(_services[a].config)
    /\ Declared(_services[a].config, "ports") # <<>>
    /\ _services[a].name \o <<":">> \o alias
           \in Range(Declared(_services[b].config, "links"))

AliasNames == {<<"web">>, <<"db">>, <<"x">>}

(* C3: when service A is present with a non-empty port list and service B  *)
(* links to it as "A:aliasA", the Services hold one named A and one named  *)
(* aliasA, and the two have the same port list.                            *)
C3_AliasHasSamePorts ==
    IsOk(ret.services) =>
        \A a, b \in DOMAIN _services : \A alias \in AliasNames :
            Aliases(a, b, alias)
            => \E i \in ServicesNamed(_services[a].name) :
                   \E j \in ServicesNamed(alias) :
                       ret.services.val[i].spec.ports = ret.services.val[j].spec.ports

\* the Services were read for two services, the second linking to the first
C3_Witness ==
    /\ IsOk(ret.services)
    /\ \E a, b \in DOMAIN _services : \E alias \in AliasNames :
           a # b /\ Aliases(a, b, alias) /\ Len(ret.services.val) >= 2

(* C4: the Service made for a link "A:aliasA" carries the labels of A: its *)
(* metadata.labels and spec.selector are {app: project, service: A}, as on *)
(* A's own Service; only metadata.name differs.                            *)
C4_AliasSelectsBackend ==
    IsOk(ret.services) =>
        \A a, b \in DOMAIN _services : \A alias \in AliasNames :
            Aliases(a, b, alias)
            => \E j \in ServicesNamed(alias) :
                   LET labels == [app |-> _project_name, service |-> _services[a].name]
                   IN  /\ ret.services.val[j].metadata.labels = labels
                       /\ ret.services.val[j].spec.selector = labels

\* the volumes of the volumes map whose k8s block is of type persistent
\* and, with named = TRUE, names its claim
Persistent(named) ==
    {v \in DOMAIN _volumes :
        /\ Has(_volumes[v].config, "k8s")
        /\ Has(_volumes[v].config.k8s, "type")
        /\ _volumes[v].config.k8s.type = "persistent"
        /\ named => Has(_volumes[v].config.k8s, "claim_name")}

(* C5: for every volume whose k8s block has type "persistent" and a        *)
(* claim_name, reading the claims completes without error and yields a     *)
(* claim named claim_name that requests "1Gi", or the storage value the    *)
(* block gives.                                                            *)
C5_ClaimRequestsStorage ==
    (WasRead(ret.persistent_volume_claims) /\ Persistent(TRUE) # {}) =>
        /\ IsOk(ret.persistent_volume_claims)
        /\ \A v \in Persistent(TRUE) :
              LET claim == _volumes[v].config.k8s
              IN  \E i \in DOMAIN ret.persistent_volume_claims.val :
                      LET t == ret.persistent_volume_claims.val[i]
                      IN  /\ t # None
                          /\ t.metadata.name = claim.claim_name
                          /\ t.spec.requested.storage =
                                 IF Has(claim, "storage") THEN claim.storage
                                 ELSE "1Gi"

(* C6: the claims hold no element for a volume whose k8s block has type    *)
(* "volatile" and none for a volume without a k8s block, and reading them  *)
(* raises no error for such volumes: the sequence has one element per      *)
(* persistent volume and every element is a claim, never None.             *)
C6_NoPlaceholderClaims ==
    WasRead(ret.persistent_volume_claims) =>
        /\ Persistent(FALSE) = {} => IsOk(ret.persistent_volume_claims)
        /\ IsOk(ret.persistent_volume_claims) =>
              /\ Len(ret.persistent_volume_claims.val) = Cardinality(Persistent(FALSE))
              /\ \A i \in DOMAIN ret.persistent_volume_claims.val :
                    ret.persistent_volume_claims.val[i] # None

\* the places of the ':' of a volume declaration
Colons(vol) == {i \in DOMAIN vol : vol[i] = ":"}

\* "<src>:<dest>[:perm]" with src beginning with '~', '.' or '/'
IsHostPath(vol) ==
    /\ vol[1] \in {"~", ".", "/"}
    /\ Cardinality(Colons(vol)) \in {1, 2}
    /\ Cardinality(Colons(vol)) = 1
          => <<vol[Len(vol)]>> \notin DOCKER_VOL_PERMISSIONS \/ vol[Len(vol) - 1] # ":"

FirstColon(vol) == CHOOSE i \in Colons(vol) : \A j \in Colons(vol) : i <= j
LastColon(vol) == CHOOSE i \in Colons(vol) : \A j \in Colons(vol) : j <= i
HostSource(vol) == SubSeq(vol, 1, FirstColon(vol) - 1)
HostDestination(vol) ==
    IF Cardinality(Colons(vol)) = 2
    THEN SubSeq(vol, FirstColon(vol) + 1, LastColon(vol) - 1)
    ELSE SubSeq(vol, FirstColon(vol) + 1, Len(vol))
HostReadOnly(vol) ==
    Cardinality(Colons(vol)) = 2 /\ SubSeq(vol, LastColon(vol) + 1, Len(vol)) = <<"ro">>

\* the Deployments of the result that carry `name`
DeploymentsNamed(name) ==
    {i \in DOMAIN ret.deployments.val : ret.deployments.val[i].metadata.name = name}

(* C7: for a present service whose volumes hold a host-path declaration    *)
(* "<src>:<dest>[:perm]", reading the deployments completes and its        *)
(* Deployment has a pod volume with hostPath.path = src and a container    *)
(* volumeMount of the same name with mountPath = dest and readOnly true    *)
(* iff perm is "ro".                                                       *)
C7_HostPathIsMounted ==
    WasRead(ret.deployments) =>
        \A s \in DOMAIN _services :
            \A vol \in Range(Declared(_services[s].config, "volumes")) :
                (IsPresent(_services[s].config) /\ IsHostPath(vol))
                => /\ IsOk(ret.deployments)
                   /\ \E i \in DeploymentsNamed(_services[s].name) :
                         LET pod == ret.deployments.val[i].spec.template.spec
                         IN  /\ Has(pod, "volumes")
                             /\ Has(pod.containers[1], "volumeMounts")
                             /\ \E v \in Range(pod.volumes) :
                                   \E m \in Range(pod.containers[1].volumeMounts) :
                                       /\ Has(v, "hostPath")
                                       /\ v.hostPath.path = HostSource(vol)
                                       /\ m.name = v.name
                                       /\ m.mountPath = HostDestination(vol)
                                       /\ m.readOnly = HostReadOnly(vol)

\* the tokens the table gives for a list of capability names
Mapped(names) == [i \in DOMAIN names |-> DOCKER_TO_KUBE_CAPABILITY_MAPPING[names[i]]]

\* the service a Deployment was made for
ServiceOf(template) ==
    _services[CHOOSE s \in DOMAIN _services :
                  _services[s].name = template.metadata.name].config

(* C8: cap_add: [NET_ADMIN] without cap_drop gives the container a         *)
(* securityContext whose add-list is exactly <<CAP_NET_ADMIN>> and whose   *)
(* drop-list is empty; in general the add-list holds the tokens of the     *)
(* cap_add names and the drop-list those of the cap_drop names, each in    *)
(* the order declared, and nothing else.                                   *)
C8_CapabilitiesMapped ==
    IsOk(ret.deployments) =>
        \A i \in DOMAIN ret.deployments.val :
            LET config == ServiceOf(ret.deployments.val[i])
                context ==
                    ret.deployments.val[i].spec.template.spec.containers[1].securityContext
            IN  /\ (Keys(config) \cap {"cap_add", "cap_drop"} # {})
                    => /\ Has(context, "Capabilities")
                       /\ context.Capabilities.add = Mapped(Declared(config, "cap_add"))
                       /\ context.Capabilities.drop = Mapped(Declared(config, "cap_drop"))
                /\ ("cap_add" \in Keys(config) /\ "cap_drop" \notin Keys(config)
                        /\ Item(config, "cap_add") = <<"NET_ADMIN">>)
                    => /\ context.Capabilities.add = <<"CAP_NET_ADMIN">>
                       /\ context.Capabilities.drop = <<>>

\* the deployments were read for a service with cap_add: [NET_ADMIN] and no
\* cap_drop, and its container has a securityContext with Capabilities
C8_Witness ==
    /\ IsOk(ret.deployments)
    /\ Len(ret.deployments.val) = 1
    /\ Keys(_services[1].config) = {"cap_add"}
    /\ Item(_services[1].config, "cap_add") = <<"NET_ADMIN">>
    /\ Has(ret.deployments.val[1].spec.template.spec.containers[1].securityContext,
           "Capabilities")

Generators == {"services", "deployments", "persistent_volume_claims"}

(* C9: for every resource of the three generators (services, deployments,  *)
(* claims) there is one task, at the same place of the generator's task    *)
(* sequence, that names the applier of the kind, has state "present" and   *)
(* carries the resource; the task sequence is as long as the resources.    *)
C9_OneTaskPerResource ==
    \A g \in Generators :
        IsOk(ret[g]) =>
            \A i \in DOMAIN ret[g].val :
                /\ Has(TaskProperty, g)
                /\ IsOk(ret[TaskProperty[g]]) =>
                      /\ Len(ret[TaskProperty[g]].val) = Len(ret[g].val)
                      /\ Has(ret[TaskProperty[g]].val[i], TaskApplier[g])
                      /\ ret[TaskProperty[g]].val[i][TaskApplier[g]] =
                             [state |-> "present", service_definition |-> ret[g].val[i]]

\* the replicas of a service's k8s block, as a set
Replicas(config) ==
    IF "k8s" \in Keys(config) /\ Has(Item(config, "k8s"), "replicas")
    THEN {Item(config, "k8s").replicas}
    ELSE {}

(* C10: a Deployment carries the replica count in its spec and not in its  *)
(* pod template: with replicas = n in the service's k8s block,             *)
(* spec.replicas = n and spec.template has no replicas; and a service      *)
(* whose state is not "present" gets no Deployment.                        *)
C10_ReplicasAtSpecLevel ==
    IsOk(ret.deployments) =>
        /\ \A i \in DOMAIN ret.deployments.val :
              LET spec == ret.deployments.val[i].spec
              IN  /\ ~Has(spec.template, "replicas")
                  /\ \A n \in Replicas(ServiceOf(ret.deployments.val[i])) :
                        Has(spec, "replicas") /\ spec.replicas = n
        /\ \A s \in DOMAIN _services :
              ~IsPresent(_services[s].config)
              => DeploymentsNamed(_services[s].name) = {}

\* the (containerPort, protocol) pair of a container port
ContainerPair(p) == <<p.containerPort, UpperTok(p.protocol[1])>>

\* the port list of the container of a Deployment
PortsOfContainer(template) ==
    ExistingPorts(template.spec.template.spec.containers[1])

(* C11: the container of a Deployment has one port list that merges the    *)
(* service's ports and expose declarations, container port only and the    *)
(* protocol in upper case or TCP: every declared (containerPort, protocol) *)
(* pair is in the list, and no pair is in it twice, whatever the string    *)
(* form or letter case of the declarations.                                *)
C11_ContainerPortsMerged ==
    IsOk(ret.deployments) =>
        \A i \in DOMAIN ret.deployments.val :
            LET config == ServiceOf(ret.deployments.val[i])
                ports == PortsOfContainer(ret.deployments.val[i])
            IN  StringForms(config) =>
                    /\ {ContainerPair(ports[a]) : a \in DOMAIN ports}
                           = DeclaredPairs(config)
                    /\ \A a, b \in DOMAIN ports :
                           ContainerPair(ports[a]) = ContainerPair(ports[b]) => a = b

=============================================================================
